---- MODULE Spec2Model ----
(***************************************************************************)
(* Model of the fffishing-rs prediction core: the Eorzea clock             *)
(* (eorzea_time.rs), the weather forecast and pattern search (weather.rs)  *)
(* and the fish window search (fish.rs).                                   *)
(*                                                                         *)
(* Times and durations are the u64 counters of the source, in game-seconds *)
(* ("esec").  Weather values are strings named after the enum variants.    *)
(* A time span is a record [start, duration]; a Result or Option is a      *)
(* record whose field ok says whether a value is present.                  *)
(***************************************************************************)
EXTENDS Integers, Sequences, FiniteSets, TLC

(***************************************************************************)
(* eorzea_time.rs: unit sizes                                              *)
(***************************************************************************)
MINUTE_IN_ESEC == 60

BELL_IN_ESEC == 60 * MINUTE_IN_ESEC

SUN_IN_ESEC == 24 * BELL_IN_ESEC

MOON_IN_ESEC == 32 * SUN_IN_ESEC

YEAR_IN_ESEC == 12 * MOON_IN_ESEC

EORZEA_WEATHER_PERIOD == BELL_IN_ESEC * 8

EORZEA_SUN == SUN_IN_ESEC

(***************************************************************************)
(* EorzeaTime::to_system_time: (timestamp as f64 / (3600.0/175.0)).round() *)
(* in real seconds since the epoch.  The exact quotient is 7*ts/144.  The  *)
(* f64 constant 3600.0/175.0 is (144/7) * (1 + 1/(3 * 2^52)), so the       *)
(* computed quotient is the exact one except on the ties 7*ts = 72 mod     *)
(* 144, where the exact value k + 1/2 is reproduced (and rounded away      *)
(* from zero) only when its significand is at most 3/2, and falls just     *)
(* below k + 1/2 (and is rounded down) otherwise.                          *)
(***************************************************************************)
RECURSIVE Pow2Floor(_)
Pow2Floor(k) == IF k < 2 THEN 1 ELSE 2 * Pow2Floor(k \div 2)

\* mutant: the quotient is truncated instead of rounded
to_system_time_Truncating(ts) == (7 * ts) \div 144

to_system_time(ts) ==
    LET n == 7 * ts
        k == n \div 144
    IN  IF n % 144 # 72
          THEN (n + 72) \div 144
          ELSE IF 2 * k + 1 > 3 * Pow2Floor(k) THEN k ELSE k + 1

(***************************************************************************)
(* 32-bit unsigned words are pairs <<hi, lo>> of 16-bit halves.            *)
(***************************************************************************)
RECURSIVE XorBits(_, _, _)
XorBits(a, b, bits) ==
    IF bits = 0 THEN 0
    ELSE ((a + b) % 2) + 2 * XorBits(a \div 2, b \div 2, bits - 1)

\* exclusive or of two 4-bit digits, tabulated once
XorNibble == [a \in 0..15 |-> [b \in 0..15 |-> XorBits(a, b, 4)]]

Xor16(a, b) ==
    XorNibble[a % 16][b % 16]
    + 16 * XorNibble[(a \div 16) % 16][(b \div 16) % 16]
    + 256 * XorNibble[(a \div 256) % 16][(b \div 256) % 16]
    + 4096 * XorNibble[(a \div 4096) % 16][(b \div 4096) % 16]

Xor32(x, y) == << Xor16(x[1], y[1]), Xor16(x[2], y[2]) >>

AsU32(v) == << (v \div 65536) % 65536, v % 65536 >>

Shl11(x) == << ((x[1] % 32) * 2048 + (x[2] \div 32)) % 65536, (x[2] % 32) * 2048 >>

Shr8(x) == << x[1] \div 256, (x[1] % 256) * 256 + (x[2] \div 256) >>

ModU32(x, m) == ((x[1] % m) * (65536 % m) + (x[2] % m)) % m

(***************************************************************************)
(* weather.rs: eorzea_weather_score                                        *)
(***************************************************************************)
\* mutant: the increment is not wrapped to the bells of a day
Inc_NoWrap(bell) == bell + 8 - (bell % 8)

\* inc = (bell + 8 - (bell % 8)) % 24
Inc(bell) == (bell + 8 - (bell % 8)) % 24

\* calc_base = ((total_days * 100) + inc) as u32
CalcBase(unix_time_sec) ==
    AsU32(((unix_time_sec \div 4200) * 100) + Inc(unix_time_sec \div 175))

\* step_1 = (calc_base << 11) ^ calc_base
Step1(calc_base) == Xor32(Shl11(calc_base), calc_base)

\* step_2 = (step_1 >> 8) ^ step_1
Step2(step_1) == Xor32(Shr8(step_1), step_1)

\* mutant: the score is taken modulo 100 whatever the forecast's largest
\* threshold is
eorzea_weather_score_Mod100(time, max_score) ==
    ModU32(Step2(Step1(CalcBase(to_system_time(time)))), 100) % 256

eorzea_weather_score(time, max_score) ==
    ModU32(Step2(Step1(CalcBase(to_system_time(time)))), max_score) % 256

(***************************************************************************)
(* lib.rs: time_to_eorzea_weather_score, the same mixing applied to the    *)
(* real seconds since the epoch, always modulo 100                         *)
(***************************************************************************)
time_to_eorzea_weather_score(unix_time_sec) ==
    ModU32(Step2(Step1(CalcBase(unix_time_sec))), 100) % 256

(***************************************************************************)
(* Option and Result values                                                *)
(***************************************************************************)
None == [some |-> FALSE]

Some(v) == [some |-> TRUE, value |-> v]

Err == [ok |-> FALSE]

Ok(v) == [ok |-> TRUE, value |-> v]

Max2(a, b) == IF a >= b THEN a ELSE b

Min2(a, b) == IF a <= b THEN a ELSE b

(***************************************************************************)
(* eorzea_time.rs: EorzeaTime and EorzeaDuration arithmetic                *)
(***************************************************************************)
\* mutant: a duration larger than the time leaves the time as it is
TimeSub_Unchanged(timestamp, esec) == IF timestamp < esec THEN timestamp ELSE timestamp - esec

\* impl Sub<EorzeaDuration> for EorzeaTime: saturates at zero
TimeSub(timestamp, esec) == IF timestamp < esec THEN 0 ELSE timestamp - esec

\* impl Add<EorzeaDuration> / AddAssign<EorzeaDuration> for EorzeaTime
TimeAdd(timestamp, esec) == timestamp + esec

\* EorzeaTime::round
round(timestamp, esec) == timestamp - (timestamp % esec)

\* impl SubAssign<EorzeaDuration> for EorzeaTime: returns early, leaving the
\* time as it is, when the duration is larger
TimeSubAssign(timestamp, esec) == IF timestamp < esec THEN timestamp ELSE timestamp - esec

\* mutant: equal times are an error too
duration_since_Strict(self, other) == IF other >= self THEN Err ELSE Ok(self - other)

\* EorzeaTime::duration_since
duration_since(self, other) == IF other > self THEN Err ELSE Ok(self - other)

\* impl Rem for EorzeaDuration
DurationRem(esec, rhs) == esec % rhs

(***************************************************************************)
(* eorzea_time.rs: EorzeaTime::new, the match on the six fields in the     *)
(* order of its arms                                                       *)
(***************************************************************************)
\* mutant: bell 24 is accepted
EorzeaTime_new_Bell24(year, moon, sun, bell, minute, second) ==
    IF year = 0 THEN Err
    ELSE IF moon = 0 \/ moon > 12 THEN Err
    ELSE IF sun = 0 \/ sun > 32 THEN Err
    ELSE IF bell > 24 THEN Err
    ELSE IF minute >= 60 THEN Err
    ELSE IF second >= 60 THEN Err
    ELSE Ok((year - 1) * YEAR_IN_ESEC + (moon - 1) * MOON_IN_ESEC + (sun - 1) * SUN_IN_ESEC
            + bell * BELL_IN_ESEC + minute * MINUTE_IN_ESEC + second)

EorzeaTime_new(year, moon, sun, bell, minute, second) ==
    IF year = 0 THEN Err
    ELSE IF moon = 0 \/ moon > 12 THEN Err
    ELSE IF sun = 0 \/ sun > 32 THEN Err
    ELSE IF bell >= 24 THEN Err
    ELSE IF minute >= 60 THEN Err
    ELSE IF second >= 60 THEN Err
    ELSE Ok((year - 1) * YEAR_IN_ESEC + (moon - 1) * MOON_IN_ESEC + (sun - 1) * SUN_IN_ESEC
            + bell * BELL_IN_ESEC + minute * MINUTE_IN_ESEC + second)

(***************************************************************************)
(* eorzea_time.rs: the accessors, with their casts to u16 and u8           *)
(***************************************************************************)
EorzeaTime_year(timestamp) == (1 + (timestamp \div YEAR_IN_ESEC)) % 65536

\* mutant: the moon is counted from zero
EorzeaTime_moon_FromZero(timestamp) == ((timestamp \div MOON_IN_ESEC) % 12) % 256

EorzeaTime_moon(timestamp) == (1 + ((timestamp \div MOON_IN_ESEC) % 12)) % 256

EorzeaTime_sun(timestamp) == (1 + ((timestamp \div SUN_IN_ESEC) % 32)) % 256

EorzeaTime_bell(timestamp) == ((timestamp \div BELL_IN_ESEC) % 24) % 256

EorzeaTime_minute(timestamp) == ((timestamp \div MINUTE_IN_ESEC) % 60) % 256

EorzeaTime_second(timestamp) == (timestamp % 60) % 256

\* impl Display for EorzeaTime: the six fields it writes, in order
EorzeaTime_fmt(timestamp) ==
    << EorzeaTime_year(timestamp), EorzeaTime_moon(timestamp), EorzeaTime_sun(timestamp),
       EorzeaTime_bell(timestamp), EorzeaTime_minute(timestamp), EorzeaTime_second(timestamp) >>

(***************************************************************************)
(* EorzeaTime::from_time: ((secs as f64) * (3600.0/175.0)).round().  The   *)
(* exact product is 144*secs/7, whose fractional part is a multiple of     *)
(* 1/7 and so never 1/2; the f64 product differs from it by less than      *)
(* 1/14 for every secs below 10^13, so the result is the nearest integer   *)
(* to 144*secs/7.  A time before the epoch (secs < 0) is the               *)
(* SystemTimeError of duration_since.                                      *)
(***************************************************************************)
\* mutant: the product is truncated instead of rounded
from_time_Truncating(secs) ==
    IF secs < 0 THEN Err
    ELSE Ok(144 * (secs \div 7) + (144 * (secs % 7)) \div 7)

from_time(secs) ==
    IF secs < 0 THEN Err
    ELSE Ok(144 * (secs \div 7) + (288 * (secs % 7) + 7) \div 14)

(***************************************************************************)
(* eorzea_time.rs: EorzeaTimeSpan                                          *)
(***************************************************************************)
EorzeaTimeSpan_new(start, duration) == [start |-> start, duration |-> duration]

new_start_end(start, end) ==
    LET d == duration_since(end, start)
    IN  IF d.ok THEN Ok([start |-> start, duration |-> d.value]) ELSE Err

SpanEnd(span) == TimeAdd(span.start, span.duration)

\* mutant: the overlap starts where self starts
overlap_SelfStart(self, other) ==
    LET min_end == Min2(SpanEnd(self), SpanEnd(other))
    IN  new_start_end(self.start, min_end)

\* mutant: the overlap ends where self ends
overlap_SelfEnd(self, other) ==
    LET max_start == Max2(self.start, other.start)
    IN  new_start_end(max_start, SpanEnd(self))

overlap(self, other) ==
    LET max_start == Max2(self.start, other.start)
        min_end == Min2(SpanEnd(self), SpanEnd(other))
    IN  new_start_end(max_start, min_end)

(***************************************************************************)
(* weather.rs: WeatherForecast.  weather_rates is a sequence of pairs      *)
(* <<threshold, weather>>.                                                 *)
(***************************************************************************)
RECURSIVE InsertRate(_, _)
InsertRate(sorted, r) ==
    IF sorted = << >> THEN << r >>
    ELSE IF sorted[Len(sorted)][1] <= r[1] THEN Append(sorted, r)
    ELSE Append(InsertRate(SubSeq(sorted, 1, Len(sorted) - 1), r), sorted[Len(sorted)])

RECURSIVE SortRates(_)
SortRates(rates) ==
    IF rates = << >> THEN << >>
    ELSE InsertRate(SortRates(SubSeq(rates, 1, Len(rates) - 1)), rates[Len(rates)])

\* mutant: the pairs are stored in the order given
WeatherForecast_new_Unsorted(weather_rates) == weather_rates

\* WeatherForecast::new: a stable sort by threshold
WeatherForecast_new(weather_rates) == SortRates(weather_rates)

RECURSIVE MaxRate(_)
MaxRate(rates) ==
    IF Len(rates) = 1 THEN rates[1][1]
    ELSE Max2(rates[1][1], MaxRate(Tail(rates)))

\* mutant: a threshold equal to the score is taken
RECURSIVE FirstAbove_AtLeast(_, _)
FirstAbove_AtLeast(rates, weather_score) ==
    IF rates = << >> THEN "Unknown"
    ELSE IF rates[1][1] >= weather_score THEN rates[1][2]
    ELSE FirstAbove_AtLeast(Tail(rates), weather_score)

RECURSIVE FirstAbove(_, _)
FirstAbove(rates, weather_score) ==
    IF rates = << >> THEN "Unknown"
    ELSE IF rates[1][1] > weather_score THEN rates[1][2]
    ELSE FirstAbove(Tail(rates), weather_score)

\* weather_at: max_score, the largest threshold or 1 for an empty table
MaxScoreOf(weather_rates) == IF weather_rates = << >> THEN 1 ELSE MaxRate(weather_rates)

\* eorzea_weather_score: step_2 % (max_score as u32) panics on a zero divisor
RemPanics(max_score) == max_score = 0

weather_at(weather_rates, time) ==
    LET max_score == IF weather_rates = << >> THEN 1 ELSE MaxRate(weather_rates)
        weather_score == eorzea_weather_score(time, max_score)
    IN  FirstAbove(weather_rates, weather_score)

(***************************************************************************)
(* weather.rs: find_pattern.  The state of the for loop is the record      *)
(* [some, time, prev_weather, steps]: some says that the loop has          *)
(* returned Some(time), steps counts the iterations executed.              *)
(* FindPatternIter is one iteration of the loop body; FindPatternLoop      *)
(* executes count iterations in order, as the first half of them followed  *)
(* by the rest, and stops at the first return.                             *)
(***************************************************************************)
\* mutant: prev_weather is not moved on to the current weather
FindPatternIter_StalePrev(rates, previous_weather_set, current_weather_set, st) ==
    LET t == TimeAdd(st.time, EORZEA_WEATHER_PERIOD)
        current_weather == weather_at(rates, t)
    IN  IF st.prev_weather \in previous_weather_set /\ current_weather \in current_weather_set
          THEN [some |-> TRUE, time |-> t, prev_weather |-> st.prev_weather,
                steps |-> st.steps + 1]
          ELSE [some |-> FALSE, time |-> t, prev_weather |-> st.prev_weather,
                steps |-> st.steps + 1]

FindPatternIter(rates, previous_weather_set, current_weather_set, st) ==
    LET t == TimeAdd(st.time, EORZEA_WEATHER_PERIOD)
        current_weather == weather_at(rates, t)
    IN  IF st.prev_weather \in previous_weather_set /\ current_weather \in current_weather_set
          THEN [some |-> TRUE, time |-> t, prev_weather |-> st.prev_weather,
                steps |-> st.steps + 1]
          ELSE [some |-> FALSE, time |-> t, prev_weather |-> current_weather,
                steps |-> st.steps + 1]

RECURSIVE FindPatternLoop(_, _, _, _, _)
FindPatternLoop(rates, previous_weather_set, current_weather_set, st, count) ==
    IF st.some \/ count = 0 THEN st
    ELSE IF count = 1
      THEN FindPatternIter(rates, previous_weather_set, current_weather_set, st)
      ELSE LET half == FindPatternLoop(rates, previous_weather_set, current_weather_set,
                                       st, count \div 2)
           IN  FindPatternLoop(rates, previous_weather_set, current_weather_set,
                               half, count - (count \div 2))

\* mutant: the search does not step back one weather period first
FindPatternRun_NoStepBack(rates, start, previous_weather_set, current_weather_set, limit) ==
    LET time == start
        prev_weather == weather_at(rates, time)
    IN  FindPatternLoop(rates, previous_weather_set, current_weather_set,
                        [some |-> FALSE, time |-> time, prev_weather |-> prev_weather,
                         steps |-> 0],
                        limit)

FindPatternRun(rates, start, previous_weather_set, current_weather_set, limit) ==
    LET time == TimeSub(start, 8 * BELL_IN_ESEC)
        prev_weather == weather_at(rates, time)
    IN  FindPatternLoop(rates, previous_weather_set, current_weather_set,
                        [some |-> FALSE, time |-> time, prev_weather |-> prev_weather,
                         steps |-> 0],
                        limit)

find_pattern(rates, start, previous_weather_set, current_weather_set, limit) ==
    LET r == FindPatternRun(rates, start, previous_weather_set, current_weather_set, limit)
    IN  IF r.some THEN Some(r.time) ELSE None

(***************************************************************************)
(* fish.rs: Fish.  A fish is a record with the fields window_start,        *)
(* window_end, previous_weather_set, weather_set and weather (the rate     *)
(* table of location.region.weather).                                      *)
(***************************************************************************)
\* mutant: an end equal to the start is not moved to the next day
WindowOnDayResult_StrictWrap(fish, etime) ==
    LET day == round(etime, EORZEA_SUN)
        wstart == TimeAdd(day, fish.window_start)
        end0 == TimeAdd(day, fish.window_end)
        end == IF end0 < wstart THEN TimeAdd(end0, EORZEA_SUN) ELSE end0
    IN  new_start_end(wstart, end)

\* Fish::window_on_day up to EorzeaTimeSpan::new_start_end(start, end)
WindowOnDayResult(fish, etime) ==
    LET day == round(etime, EORZEA_SUN)
        wstart == TimeAdd(day, fish.window_start)
        end0 == TimeAdd(day, fish.window_end)
        end == IF end0 <= wstart THEN TimeAdd(end0, EORZEA_SUN) ELSE end0
    IN  new_start_end(wstart, end)

\* Fish::window_on_day: the unwrap of that result; there is a value only if
\* the result is Ok, otherwise the call panics
window_on_day(fish, etime) == WindowOnDayResult(fish, etime).value

(***************************************************************************)
(* Bounds of the model and the inputs drawn from them                      *)
(***************************************************************************)
\* search starts lie in the weather periods 0..MaxStartPeriod
MaxStartPeriod == 6

\* the small limits are 0..MaxLimit
MaxLimit == 6

\* find_next_n_patterns is asked for 0..MaxN instants
MaxN == 3

\* weather is asked for in the weather periods 0..MaxWeatherPeriod
MaxWeatherPeriod == 21

\* EorzeaTime::new is called with the years 0..MaxYear
MaxYear == 3

\* from_time is called with every real second up to MaxSecs
MaxSecs == 40

\* spans start at, and last, 0..MaxSpan game-seconds
MaxSpan == 3

\* the large limit used by the tests of weather.rs
TestLimit == 1000

\* offsets of a search start inside its weather period: aligned, 01:01:01,
\* 02:00:00 and 10,000 game-seconds (the starts used by the tests)
StartOffsets == {0, 3661, 7200, 10000}

Starts == { p * EORZEA_WEATHER_PERIOD + off : p \in 0..MaxStartPeriod, off \in StartOffsets }

\* limits of next_window; the pattern searches also get the large limit
Limits == 0..MaxLimit

PatternLimits == Limits \cup {TestLimit}

\* rate tables as handed to WeatherForecast::new, in any order
RatesClouds == << <<100, "Sunny">>, <<50, "Clouds">> >>

RatesEmpyreum ==
    << <<5, "Clouds">>, <<25, "ClearSkies">>, <<65, "FairSkies">>, <<80, "Fog">>, <<90, "Wind">> >>

\* region weather and the weather sets of a fish
Patterns ==
    { [weather |-> WeatherForecast_new(RatesClouds),
       previous_weather_set |-> {"Clouds"}, weather_set |-> {"Clouds"}],
      [weather |-> WeatherForecast_new(RatesClouds),
       previous_weather_set |-> {"Sunny"}, weather_set |-> {"Sunny"}],
      [weather |-> WeatherForecast_new(RatesClouds),
       previous_weather_set |-> {"Unknown"}, weather_set |-> {"Unknown"}],
      [weather |-> WeatherForecast_new(RatesEmpyreum),
       previous_weather_set |-> {"Unknown"}, weather_set |-> {"Unknown"}],
      [weather |-> WeatherForecast_new(RatesEmpyreum),
       previous_weather_set |-> {"ClearSkies", "FairSkies"}, weather_set |-> {"FairSkies"}] }

\* daily windows <<window_start, window_end>>: 01:00-02:00, 07:30-08:30,
\* 23:30-01:00 (the three tests of fish.rs) and 08:00-09:00
Windows == { <<3600, 7200>>, <<27000, 30600>>, <<84600, 3600>>, <<28800, 32400>> }

\* Fish::new reduces both offsets modulo one sun
Fish_new(window_start, window_end, pat) ==
    [window_start |-> DurationRem(window_start, EORZEA_SUN),
     window_end |-> DurationRem(window_end, EORZEA_SUN),
     previous_weather_set |-> pat.previous_weather_set,
     weather_set |-> pat.weather_set,
     weather |-> pat.weather]

Fishes == { Fish_new(w[1], w[2], pat) : w \in Windows, pat \in Patterns }

\* find_pattern and find_next_n_patterns take no window
PatternFishes == { Fish_new(3600, 7200, pat) : pat \in Patterns }

\* the table of the test weather_at_real
RatesReal ==
    << <<20, "Clouds">>, <<50, "ClearSkies">>, <<80, "FairSkies">>, <<90, "Fog">>, <<100, "Wind">> >>

\* rate tables handed to WeatherForecast::new: sorted, reversed, shuffled,
\* with a repeated threshold, with a largest threshold of 0, and empty
RawTables ==
    { RatesClouds,
      << <<50, "Clouds">>, <<100, "Sunny">> >>,
      RatesEmpyreum,
      << <<80, "Fog">>, <<5, "Clouds">>, <<90, "Wind">>, <<65, "FairSkies">>, <<25, "ClearSkies">> >>,
      RatesReal,
      << <<60, "Fog">>, <<30, "Wind">>, <<60, "Clouds">> >>,
      << <<0, "Clouds">> >>,
      << >> }

\* offsets of an instant inside its weather period: its start, 01:01:01, and
\* the seconds around the last real second of the period
PeriodOffsets == {0, 3661, 28789, 28790, 28799}

\* the instants of the tests of weather_at
TestTimes == {100000, 110000, 120000}

WeatherTimes ==
    { p * EORZEA_WEATHER_PERIOD + off : p \in 0..MaxWeatherPeriod, off \in PeriodOffsets }
    \cup TestTimes

\* the moduli eorzea_weather_score is called with
MaxScores == {0, 1, 50, 90, 100, 255}

\* the instants eorzea_weather_score is called with: the period starts and
\* the three instants of its test, 1-1-1 00:00:00, 1-1-24 19:25:43 and
\* 2-1-1 00:00:00
ScoreTimes ==
    { p * EORZEA_WEATHER_PERIOD : p \in 0..MaxWeatherPeriod }
    \cup { 0, 23 * SUN_IN_ESEC + 19 * BELL_IN_ESEC + 25 * MINUTE_IN_ESEC + 43, YEAR_IN_ESEC }

\* the real seconds time_to_eorzea_weather_score is called with: the period
\* starts and the instants of its test
UnixTimes ==
    { p * 1400 : p \in 0..MaxWeatherPeriod } \cup { 0, 100000, 1741463853, 1612800 }

\* the fields EorzeaTime::new is called with: the ends of each range, the
\* values next to them and the fields of the instants used by the tests
NewInputs ==
    [year : 0..MaxYear, moon : {0, 1, 7, 12, 13}, sun : {0, 1, 21, 32, 33},
     bell : {0, 13, 23, 24}, minute : {0, 42, 59, 60}, second : {0, 1, 51, 59, 60}]

\* the real seconds from_time is called with: one second before the epoch,
\* the first seconds, and the instants of the tests
FromTimeSecs ==
    (-1..MaxSecs) \cup {MINUTE_IN_ESEC, BELL_IN_ESEC, 4200, 86400, MOON_IN_ESEC}

\* operands of EorzeaTime - EorzeaDuration
SubTimes == {0, 1, 3661, 28799, 28800, 28801, 100000}

SubDurations == {0, 1, 3661, 28800, 86400}

\* starts, ends and durations of the spans handed to new_start_end and overlap
SpanTimes == 0..MaxSpan

\* window offsets of a fish as given to Fish::new or written into the struct:
\* inside a day, a whole day, and more than a day
WindowOffsets == {0, 3600, 7200, 84600, 86400, 90000, 200000}

\* reference times of window_on_day
DayTimes == {0, 3661, 86399, 86400, 100000, 2 * SUN_IN_ESEC + 1}

SearchOps == {"next_window", "find_pattern", "find_next_n_patterns"}

CallOps ==
    {"eorzea_weather_score", "time_to_eorzea_weather_score", "weather_at",
     "new", "from_time", "sub", "sub_assign", "new_start_end", "overlap", "window_on_day"}

CallInputs(o) ==
    CASE o = "eorzea_weather_score" -> [time : ScoreTimes, max_score : MaxScores]
      [] o = "time_to_eorzea_weather_score" -> [unix_time_sec : UnixTimes]
      [] o = "weather_at" -> [weather_rates : RawTables, time : WeatherTimes]
      [] o = "new" -> NewInputs
      [] o = "from_time" -> [secs : FromTimeSecs]
      [] o = "sub" -> [timestamp : SubTimes, esec : SubDurations]
      [] o = "sub_assign" -> [timestamp : SubTimes, esec : SubDurations]
      [] o = "new_start_end" -> [start : SpanTimes, end : SpanTimes]
      [] o = "overlap" ->
             [self : { EorzeaTimeSpan_new(t, d) : t \in SpanTimes, d \in SpanTimes },
              other : { EorzeaTimeSpan_new(t, d) : t \in SpanTimes, d \in SpanTimes }]
      [] o = "window_on_day" ->
             [window_start : WindowOffsets, window_end : WindowOffsets,
              by_new : BOOLEAN, etime : DayTimes]

\* the calls other than next_window hold no fish; the forecast of a
\* weather_at call is empty until WeatherForecast::new has run
NoFish ==
    Fish_new(0, 0, [weather |-> << >>, previous_weather_set |-> {}, weather_set |-> {}])

(***************************************************************************)
(* State: one call of a function of the library.  The searches             *)
(* (next_window, find_pattern, find_next_n_patterns) keep their arguments  *)
(* and locals in variables of their own; every other call keeps its        *)
(* arguments in the record input.                                          *)
(***************************************************************************)
VARIABLES
    op,               \* the function called
    fish,             \* self (next_window) or the forecast and weather sets
    start,            \* argument start
    include_ongoing,  \* argument include_ongoing
    arg_limit,        \* argument limit, as passed
    n,                \* argument n of find_next_n_patterns
    input,            \* the arguments of any other call, as a record
    time,             \* local: the cursor
    limit,            \* local: next_window's remaining counter
    i,                \* local: iterations done by the loop
    steps,            \* candidates examined by the last find_pattern call
    vec,              \* local: result vector of find_next_n_patterns
    result,           \* the returned Option
    readback,         \* what fmt and to_system_time gave for a built time
    pc                \* "new" before the forecast is built, "run" inside the
                      \* call, "built" and "shown" while a built time is read
                      \* back, "done" after the return, "panic" after a
                      \* panic

vars == << op, fish, start, include_ongoing, arg_limit, n, input, time, limit, i, steps, vec, result, readback, pc >>

args == << op, fish, start, include_ongoing, arg_limit, n, input >>

Init ==
    /\ op \in SearchOps \cup CallOps
    /\ IF op \in SearchOps
         THEN /\ start \in Starts
              /\ IF op = "next_window"
                   THEN fish \in Fishes /\ include_ongoing \in BOOLEAN /\ arg_limit \in Limits
                   ELSE /\ fish \in PatternFishes
                        /\ include_ongoing = FALSE
                        /\ arg_limit \in PatternLimits
              /\ input = << >>
         ELSE /\ input \in CallInputs(op)
              /\ start = 0
              /\ fish = NoFish
              /\ include_ongoing = FALSE
              /\ arg_limit = 0
    /\ IF op = "find_next_n_patterns" THEN n \in 0..MaxN ELSE n = 0
    /\ time = start
    /\ limit = arg_limit
    /\ i = 0
    /\ steps = 0
    /\ vec = << >>
    /\ result = None
    /\ readback = << >>
    /\ pc = IF op \in {"weather_at", "window_on_day"} THEN "new" ELSE "run"

(***************************************************************************)
(* fish.rs: Fish::next_window, one evaluation of the while condition and   *)
(* of the loop body                                                        *)
(***************************************************************************)
\* mutant: find_pattern is given one more than the remaining counter
NextWindowCandidate_BudgetPlusOne(f, t, lim) ==
    LET next_weather == find_pattern(f.weather, t, f.previous_weather_set, f.weather_set, lim + 1)
    IN  IF ~next_weather.some THEN [found |-> FALSE]
        ELSE LET weather_span == EorzeaTimeSpan_new(next_weather.value, EORZEA_WEATHER_PERIOD)
             IN  [found |-> TRUE, window |-> overlap(window_on_day(f, t), weather_span)]

\* mutant: the day's window is not intersected with the weather span
NextWindowCandidate_DayOnly(f, t, lim) ==
    LET next_weather == find_pattern(f.weather, t, f.previous_weather_set, f.weather_set, lim)
    IN  IF ~next_weather.some THEN [found |-> FALSE]
        ELSE [found |-> TRUE, window |-> Ok(window_on_day(f, t))]

NextWindowCandidate(f, t, lim) ==
    LET next_weather == find_pattern(f.weather, t, f.previous_weather_set, f.weather_set, lim)
    IN  IF ~next_weather.some THEN [found |-> FALSE]
        ELSE LET weather_span == EorzeaTimeSpan_new(next_weather.value, EORZEA_WEATHER_PERIOD)
             IN  [found |-> TRUE, window |-> overlap(window_on_day(f, t), weather_span)]

\* mutant: the day's whole window is returned instead of the intersection
NextWindowBody_ReturnsDayWindow(f, s, ongoing, t, lim) ==
    LET c == NextWindowCandidate(f, t, lim)
    IN  IF ~c.found THEN [ret |-> TRUE, result |-> None]
        ELSE LET window == c.window
                 min_window == IF ongoing THEN SpanEnd(window.value) ELSE window.value.start
             IN  IF window.ok /\ s <= min_window /\ window.value.duration > 0
                   THEN [ret |-> TRUE, result |-> Some(window_on_day(f, t))]
                   ELSE [ret |-> FALSE]

\* mutant: an intersection of zero duration is accepted
NextWindowBody_NoDurationCheck(f, s, ongoing, t, lim) ==
    LET c == NextWindowCandidate(f, t, lim)
    IN  IF ~c.found THEN [ret |-> TRUE, result |-> None]
        ELSE LET window == c.window
                 min_window == IF ongoing THEN SpanEnd(window.value) ELSE window.value.start
             IN  IF window.ok /\ s <= min_window
                   THEN [ret |-> TRUE, result |-> Some(window.value)]
                   ELSE [ret |-> FALSE]

NextWindowBody(f, s, ongoing, t, lim) ==
    LET c == NextWindowCandidate(f, t, lim)
    IN  IF ~c.found THEN [ret |-> TRUE, result |-> None]
        ELSE LET window == c.window
                 min_window == IF ongoing THEN SpanEnd(window.value) ELSE window.value.start
             IN  IF window.ok /\ s <= min_window /\ window.value.duration > 0
                   THEN [ret |-> TRUE, result |-> Some(window.value)]
                   ELSE [ret |-> FALSE]

\* Fish::next_window as a whole: the loop run from cursor t with counter lim
RECURSIVE NextWindowFrom(_, _, _, _, _)
NextWindowFrom(f, s, ongoing, t, lim) ==
    IF lim > 0
      THEN IF NextWindowBody(f, s, ongoing, t, lim).ret
             THEN NextWindowBody(f, s, ongoing, t, lim).result
             ELSE NextWindowFrom(f, s, ongoing, TimeAdd(t, EORZEA_WEATHER_PERIOD), lim - 1)
      ELSE None

next_window(f, s, ongoing, lim) == NextWindowFrom(f, s, ongoing, s, lim)

NextWindowStep ==
    /\ op = "next_window"
    /\ pc = "run"
    /\ IF limit > 0
         THEN LET b == NextWindowBody(fish, start, include_ongoing, time, limit)
              IN  IF b.ret
                    THEN /\ result' = b.result
                         /\ pc' = "done"
                         /\ UNCHANGED << time, limit >>
                    ELSE /\ time' = TimeAdd(time, EORZEA_WEATHER_PERIOD)
                         /\ limit' = limit - 1
                         /\ UNCHANGED << result, pc >>
         ELSE /\ result' = None
              /\ pc' = "done"
              /\ UNCHANGED << time, limit >>
    /\ i' = i + 1
    /\ UNCHANGED << args, steps, vec, readback >>

(***************************************************************************)
(* weather.rs: one call of find_pattern                                    *)
(***************************************************************************)
FindPatternCall ==
    /\ op = "find_pattern"
    /\ pc = "run"
    /\ LET r == FindPatternRun(fish.weather, start, fish.previous_weather_set,
                               fish.weather_set, arg_limit)
       IN  /\ result' = IF r.some THEN Some(r.time) ELSE None
           /\ steps' = r.steps
    /\ pc' = "done"
    /\ UNCHANGED << args, time, limit, i, vec, readback >>

(***************************************************************************)
(* weather.rs: find_next_n_patterns, one evaluation of the for loop        *)
(***************************************************************************)
\* mutant: the next search starts at the instant just found
NextSearchStart_Same(t) == t

\* time = t; time += EORZEA_WEATHER_PERIOD
NextSearchStart(t) == TimeAdd(t, EORZEA_WEATHER_PERIOD)

FindNextNStep ==
    /\ op = "find_next_n_patterns"
    /\ pc = "run"
    /\ IF i < n
         THEN LET r == find_pattern(fish.weather, time, fish.previous_weather_set,
                                    fish.weather_set, arg_limit)
              IN  IF r.some
                    THEN /\ vec' = Append(vec, r.value)
                         /\ time' = NextSearchStart(r.value)
                         /\ i' = i + 1
                         /\ UNCHANGED pc
                    ELSE /\ pc' = "done"
                         /\ UNCHANGED << vec, time, i >>
         ELSE /\ pc' = "done"
              /\ UNCHANGED << vec, time, i >>
    /\ UNCHANGED << args, limit, steps, result, readback >>

(***************************************************************************)
(* One call of each of the other functions                                 *)
(***************************************************************************)
locals == << time, limit, i, steps, vec >>

\* weather.rs: eorzea_weather_score(time, max_score)
ScoreCall ==
    /\ op = "eorzea_weather_score"
    /\ pc = "run"
    /\ IF RemPanics(input.max_score)
         THEN pc' = "panic" /\ UNCHANGED result
         ELSE /\ result' = Ok(eorzea_weather_score(input.time, input.max_score))
              /\ pc' = "done"
    /\ UNCHANGED << args, locals, readback >>

\* lib.rs: time_to_eorzea_weather_score(UNIX_EPOCH + unix_time_sec)
LibScoreCall ==
    /\ op = "time_to_eorzea_weather_score"
    /\ pc = "run"
    /\ result' = Ok(time_to_eorzea_weather_score(input.unix_time_sec))
    /\ pc' = "done"
    /\ UNCHANGED << args, locals, readback >>

\* weather.rs: WeatherForecast::new(region, weather_rates)
ForecastNew ==
    /\ op = "weather_at"
    /\ pc = "new"
    /\ fish' = [fish EXCEPT !.weather = WeatherForecast_new(input.weather_rates)]
    /\ pc' = "run"
    /\ UNCHANGED << op, start, include_ongoing, arg_limit, n, input, locals, result, readback >>

\* weather.rs: forecast.weather_at(time)
WeatherAtCall ==
    /\ op = "weather_at"
    /\ pc = "run"
    /\ IF RemPanics(MaxScoreOf(fish.weather))
         THEN pc' = "panic" /\ UNCHANGED result
         ELSE /\ result' = Some(weather_at(fish.weather, input.time))
              /\ pc' = "done"
    /\ UNCHANGED << args, locals, readback >>

\* eorzea_time.rs: EorzeaTime::new(year, moon, sun, bell, minute, second)
NewCall ==
    /\ op = "new"
    /\ pc = "run"
    /\ result' = EorzeaTime_new(input.year, input.moon, input.sun,
                                input.bell, input.minute, input.second)
    /\ pc' = IF result'.ok THEN "built" ELSE "done"
    /\ UNCHANGED << args, locals, readback >>

\* eorzea_time.rs: EorzeaTime::from_time(&(UNIX_EPOCH + secs))
FromTimeCall ==
    /\ op = "from_time"
    /\ pc = "run"
    /\ result' = from_time(input.secs)
    /\ pc' = IF result'.ok THEN "built" ELSE "done"
    /\ UNCHANGED << args, locals, readback >>

\* eorzea_time.rs: the built time is written by Display::fmt
FmtCall ==
    /\ op \in {"new", "from_time"}
    /\ pc = "built"
    /\ readback' = [fields |-> EorzeaTime_fmt(result.value)]
    /\ pc' = "shown"
    /\ UNCHANGED << args, locals, result >>

\* eorzea_time.rs: the built time is converted by to_system_time
ToSystemTimeCall ==
    /\ op \in {"new", "from_time"}
    /\ pc = "shown"
    /\ readback' = [fields |-> readback.fields,
                    system_time |-> to_system_time(result.value)]
    /\ pc' = "done"
    /\ UNCHANGED << args, locals, result >>

\* eorzea_time.rs: EorzeaTime - EorzeaDuration
SubCall ==
    /\ op = "sub"
    /\ pc = "run"
    /\ result' = Ok(TimeSub(input.timestamp, input.esec))
    /\ pc' = "done"
    /\ UNCHANGED << args, locals, readback >>

\* eorzea_time.rs: t -= d (EorzeaTime -= EorzeaDuration)
SubAssignCall ==
    /\ op = "sub_assign"
    /\ pc = "run"
    /\ result' = Ok(TimeSubAssign(input.timestamp, input.esec))
    /\ pc' = "done"
    /\ UNCHANGED << args, locals, readback >>

\* eorzea_time.rs: EorzeaTimeSpan::new_start_end(start, end)
NewStartEndCall ==
    /\ op = "new_start_end"
    /\ pc = "run"
    /\ result' = new_start_end(input.start, input.end)
    /\ pc' = "done"
    /\ UNCHANGED << args, locals, readback >>

\* eorzea_time.rs: self.overlap(&other)
OverlapCall ==
    /\ op = "overlap"
    /\ pc = "run"
    /\ result' = overlap(input.self, input.other)
    /\ pc' = "done"
    /\ UNCHANGED << args, locals, readback >>

\* fish.rs: the fish is built, by Fish::new or as a struct literal with the
\* offsets as given (the fields are public)
BuildFish ==
    /\ op = "window_on_day"
    /\ pc = "new"
    /\ fish' = IF input.by_new
                THEN Fish_new(input.window_start, input.window_end, NoFish)
                ELSE [NoFish EXCEPT !.window_start = input.window_start,
                                    !.window_end = input.window_end]
    /\ pc' = "run"
    /\ UNCHANGED << op, start, include_ongoing, arg_limit, n, input, locals, result, readback >>

\* fish.rs: fish.window_on_day(etime); the unwrap of an Err panics
WindowOnDayCall ==
    /\ op = "window_on_day"
    /\ pc = "run"
    /\ IF WindowOnDayResult(fish, input.etime).ok
         THEN /\ result' = Ok(window_on_day(fish, input.etime))
              /\ pc' = "done"
         ELSE pc' = "panic" /\ UNCHANGED result
    /\ UNCHANGED << args, locals, readback >>

Next ==
    \/ NextWindowStep
    \/ FindPatternCall
    \/ FindNextNStep
    \/ ScoreCall
    \/ LibScoreCall
    \/ ForecastNew
    \/ WeatherAtCall
    \/ NewCall
    \/ FromTimeCall
    \/ FmtCall
    \/ ToSystemTimeCall
    \/ SubCall
    \/ SubAssignCall
    \/ NewStartEndCall
    \/ OverlapCall
    \/ BuildFish
    \/ WindowOnDayCall

Spec == Init /\ [][Next]_vars

(***************************************************************************)
(* Vocabulary of the claims                                                *)
(***************************************************************************)
Done(o) == op = o /\ pc = "done"

\* next_window has returned Some(window)
Returned == Done("next_window") /\ result.some

SpanContains(span, u) == span.start <= u /\ u < SpanEnd(span)

\* start of the aligned 8-bell weather period that holds the instant u
PeriodStart(u) == u - (u % EORZEA_WEATHER_PERIOD)

\* u lies in the fish's daily window of its own day or, for a window that
\* wraps past midnight, of the day before
InDailyWindow(f, u) ==
    \/ SpanContains(window_on_day(f, u), u)
    \/ u >= EORZEA_SUN /\ SpanContains(window_on_day(f, u - EORZEA_SUN), u)

\* the weather period of u has a weather of weather_set and the period
\* before it a weather of previous_weather_set
PatternHolds(f, u) ==
    /\ u >= EORZEA_WEATHER_PERIOD
    /\ weather_at(f.weather, PeriodStart(u)) \in f.weather_set
    /\ weather_at(f.weather, PeriodStart(u) - EORZEA_WEATHER_PERIOD) \in f.previous_weather_set

Available(f, u) == InDailyWindow(f, u) /\ PatternHolds(f, u)

\* The available instants form intervals that begin at a weather period
\* boundary or at a daily window start, so the earliest available instant
\* of lo..hi-1, if there is one, is lo itself or one of these boundaries.
EarliestCandidates(f, lo, hi) ==
    { u \in {lo}
        \cup { p * EORZEA_WEATHER_PERIOD :
                 p \in (lo \div EORZEA_WEATHER_PERIOD)..(hi \div EORZEA_WEATHER_PERIOD) }
        \cup { d * EORZEA_SUN + f.window_start :
                 d \in (lo \div EORZEA_SUN)..(hi \div EORZEA_SUN) } :
      lo <= u /\ u < hi }

(***************************************************************************)
(* C1: next_window with include_ongoing = false returns the earliest       *)
(* availability window at or after the search start: no instant between    *)
(* the search start and the start of the returned window lies both in the  *)
(* daily window and in a weather period that matches the fish's pattern.   *)
(* Stated on the instants at which an availability interval can begin.     *)
(***************************************************************************)
C1_EarliestWindow ==
    (Returned /\ ~include_ongoing) =>
        \A u \in EarliestCandidates(fish, start, result.value.start) : ~Available(fish, u)

(***************************************************************************)
(* C2: at every instant of a returned window the fish is inside its daily  *)
(* window and weather_at of that instant is in the fish's weather_set.     *)
(***************************************************************************)
C2_WindowInsideDayAndWeather ==
    Returned =>
        \A u \in result.value.start..(SpanEnd(result.value) - 1) :
            /\ InDailyWindow(fish, u)
            /\ weather_at(fish.weather, u) \in fish.weather_set

(***************************************************************************)
(* C3: with include_ongoing = false a returned window never starts before  *)
(* the search start.                                                       *)
(***************************************************************************)
C3_NotBeforeSearchStart ==
    (Returned /\ ~include_ongoing) => start <= result.value.start

\* a window was returned to a caller that asked for future windows only,
\* from a search start that lies inside the fish's daily window
C3_Witness ==
    /\ Returned
    /\ ~include_ongoing
    /\ SpanContains(window_on_day(fish, start), start)
    /\ window_on_day(fish, start).start < start

(***************************************************************************)
(* C4: with include_ongoing = true a window that began before the search   *)
(* start and has not yet ended is reported: when the fish is available     *)
(* just before and at the search start, inside one weather period, a       *)
(* search with a positive limit returns a window w with                    *)
(* w.start < start <= w.end; and every window returned with                *)
(* include_ongoing = true has start <= w.end.                              *)
(***************************************************************************)
C4_OngoingWindowReported ==
    (Done("next_window") /\ include_ongoing) =>
        /\ result.some => start <= SpanEnd(result.value)
        /\ ( /\ arg_limit > 0
             /\ start > 0
             /\ PeriodStart(start - 1) = PeriodStart(start)
             /\ Available(fish, start - 1)
             /\ Available(fish, start) )
           => ( /\ result.some
                /\ result.value.start < start
                /\ start <= SpanEnd(result.value) )

(***************************************************************************)
(* C5: next_window never returns a window of zero duration.                *)
(***************************************************************************)
C5_NoZeroDurationWindow ==
    Returned => result.value.duration > 0

\* iteration k of the search (0-based) met an intersection of zero duration
ZeroOverlapAt(k) ==
    LET c == NextWindowCandidate(fish, start + k * EORZEA_WEATHER_PERIOD, arg_limit - k)
    IN  c.found /\ c.window.ok /\ c.window.value.duration = 0

\* a window was returned after an earlier iteration had met a daily window
\* and a weather span that merely touch
C5_Witness ==
    /\ Returned
    /\ \E k \in 0..(arg_limit - limit - 1) : ZeroOverlapAt(k)

(***************************************************************************)
(* C6: a returned window lies inside one aligned 8-bell weather period:    *)
(* floor(w.start / 28800) = floor((w.end - 1) / 28800).                    *)
(***************************************************************************)
C6_WindowInsideOnePeriod ==
    Returned =>
        result.value.start \div EORZEA_WEATHER_PERIOD
            = (SpanEnd(result.value) - 1) \div EORZEA_WEATHER_PERIOD

(***************************************************************************)
(* C7: an instant returned by find_pattern is the start of a weather       *)
(* period, a multiple of 28800 game-seconds.                               *)
(***************************************************************************)
C7_PatternAtPeriodStart ==
    (Done("find_pattern") /\ result.some) => result.value % EORZEA_WEATHER_PERIOD = 0

(***************************************************************************)
(* C8: find_pattern returns the first match at or after start.  The        *)
(* candidates are one weather period apart, the first one is at            *)
(* (start - 8 bells) + 8 bells with the subtraction saturating at zero;    *)
(* a candidate matches when weather_at one period before it is in the      *)
(* previous set and weather_at of it is in the current set.  Some(t) is    *)
(* the first matching candidate among the first limit ones and t >= start; *)
(* None means that none of the first limit candidates matches; at most     *)
(* limit candidates are examined.                                          *)
(***************************************************************************)
CandidateAt(k) == TimeSub(start, EORZEA_WEATHER_PERIOD) + (k + 1) * EORZEA_WEATHER_PERIOD

CandidateMatches(t) ==
    /\ weather_at(fish.weather, TimeSub(t, EORZEA_WEATHER_PERIOD)) \in fish.previous_weather_set
    /\ weather_at(fish.weather, t) \in fish.weather_set

C8_FirstMatchWithinLimit ==
    Done("find_pattern") =>
        /\ steps <= arg_limit
        /\ IF result.some
             THEN /\ result.value >= start
                  /\ steps >= 1
                  /\ result.value = CandidateAt(steps - 1)
                  /\ CandidateMatches(result.value)
                  /\ \A k \in 0..(steps - 2) : ~CandidateMatches(CandidateAt(k))
             ELSE /\ steps = arg_limit
                  /\ \A k \in 0..(arg_limit - 1) : ~CandidateMatches(CandidateAt(k))

\* a match found from a start off the period boundary after at least one
\* candidate that did not match
C8_Witness ==
    /\ Done("find_pattern")
    /\ result.some
    /\ steps >= 2
    /\ start % EORZEA_WEATHER_PERIOD # 0
    /\ start >= EORZEA_WEATHER_PERIOD

(***************************************************************************)
(* C9: for a forecast with a non-empty rate table and a positive largest   *)
(* threshold, weather_at is never Unknown at the instants find_pattern     *)
(* looks at, and find_pattern with both sets equal to {Unknown} returns    *)
(* None.                                                                   *)
(***************************************************************************)
C9_UnknownNeverForecast ==
    (Done("find_pattern") /\ fish.weather # << >> /\ MaxRate(fish.weather) > 0) =>
        /\ \A k \in 0..steps :
              weather_at(fish.weather,
                         TimeSub(start, EORZEA_WEATHER_PERIOD) + k * EORZEA_WEATHER_PERIOD)
                  # "Unknown"
        /\ (fish.previous_weather_set = {"Unknown"} /\ fish.weather_set = {"Unknown"})
              => result = None

\* the search of tests::pattern_search_not_found has run through its limit
C9_Witness ==
    /\ Done("find_pattern")
    /\ fish.previous_weather_set = {"Unknown"}
    /\ fish.weather_set = {"Unknown"}
    /\ start = 10000
    /\ arg_limit = TestLimit
    /\ steps = TestLimit

(***************************************************************************)
(* C10: regression fixture for the rate table [(50,Clouds),(100,Sunny)]:   *)
(* with both sets {Sunny}, start 10,000 and limit 1000 find_pattern        *)
(* returns 259,200 and find_next_n_patterns with n = 3 returns             *)
(* [259200, 576000, 662400]; with both sets {Clouds} and start 3661        *)
(* find_pattern returns 57,600.                                            *)
(***************************************************************************)
FixtureCall(o, s, w) ==
    /\ Done(o)
    /\ fish.weather = << <<50, "Clouds">>, <<100, "Sunny">> >>
    /\ fish.previous_weather_set = {w}
    /\ fish.weather_set = {w}
    /\ start = s
    /\ arg_limit = TestLimit

C10_RegressionFixture ==
    /\ FixtureCall("find_pattern", 10000, "Sunny") => result = Some(259200)
    /\ (FixtureCall("find_next_n_patterns", 10000, "Sunny") /\ n = 3)
          => vec = << 259200, 576000, 662400 >>
    /\ FixtureCall("find_pattern", 3661, "Clouds") => result = Some(57600)

\* the call of tests::pattern_search_n has returned its three instants
C10_Witness ==
    /\ FixtureCall("find_next_n_patterns", 10000, "Sunny")
    /\ n = 3
    /\ Len(vec) = 3

(***************************************************************************)
(* C11: find_next_n_patterns returns at most n instants.  The first is the *)
(* result of find_pattern from start, each next one the result of          *)
(* find_pattern from one weather period after the one before, with the     *)
(* same sets and limit; so the instants increase strictly, at least one    *)
(* period apart, and no matching candidate between two of them is left     *)
(* out.  The list ends at the first search that fails: it has fewer than   *)
(* n entries exactly when one of the searches made returned None, which is *)
(* then the search after its last entry.                                   *)
(***************************************************************************)
SearchFrom(t) == find_pattern(fish.weather, t, fish.previous_weather_set, fish.weather_set, arg_limit)

\* where the search for entry k of the list starts
SearchStartOf(k) == IF k = 1 THEN start ELSE TimeAdd(vec[k - 1], EORZEA_WEATHER_PERIOD)

C11_NextNPatterns ==
    op = "find_next_n_patterns" =>
        /\ Len(vec) <= n
        /\ \A k \in 1..Len(vec) :
              /\ SearchFrom(SearchStartOf(k)).some
              /\ vec[k] = SearchFrom(SearchStartOf(k)).value
        /\ \A k \in 1..(Len(vec) - 1) :
              /\ vec[k + 1] >= vec[k] + EORZEA_WEATHER_PERIOD
              /\ \A j \in 1..(((vec[k + 1] - vec[k]) \div EORZEA_WEATHER_PERIOD) - 1) :
                    ~CandidateMatches(vec[k] + j * EORZEA_WEATHER_PERIOD)
        /\ (pc = "done" /\ Len(vec) < n) => ~SearchFrom(SearchStartOf(Len(vec) + 1)).some

\* a full list of at least two instants with a candidate that does not
\* match between two of them
C11_Witness ==
    /\ Done("find_next_n_patterns")
    /\ Len(vec) = n
    /\ n >= 2
    /\ vec[2] > vec[1] + EORZEA_WEATHER_PERIOD

\* a list cut short by a failed search after its first entry
C11_WitnessShort ==
    /\ Done("find_next_n_patterns")
    /\ Len(vec) >= 1
    /\ Len(vec) < n

(***************************************************************************)
(* C12: the weather score is below its modulus, and with modulus 100 it is *)
(* 56 at real second 0, 76 at real second 100,000, 94 at real second       *)
(* 1,741,463,853 and 78 at the start of Eorzea year 2 (real second         *)
(* 1,612,800).  eorzea_weather_score takes the Eorzea instants of these    *)
(* real seconds, time_to_eorzea_weather_score the real seconds themselves. *)
(***************************************************************************)
ScoreFixtures == { <<0, 56>>, <<100000, 76>>, <<1741463853, 94>>, <<1612800, 78>> }

C12_ScoreValues ==
    /\ Done("time_to_eorzea_weather_score") =>
          /\ result.value < 100
          /\ \A f \in ScoreFixtures : input.unix_time_sec = f[1] => result.value = f[2]
    /\ Done("eorzea_weather_score") =>
          /\ result.value < input.max_score
          /\ input.max_score = 100 =>
                \A f \in ScoreFixtures :
                    to_system_time(input.time) = f[1] => result.value = f[2]

\* the score of real second 1,741,463,853 has been computed
C12_Witness ==
    /\ Done("time_to_eorzea_weather_score")
    /\ input.unix_time_sec = 1741463853
    /\ result.value = 94

\* the score of 2-1-1 00:00:00 has been computed modulo 100
C12_WitnessYear2 ==
    /\ Done("eorzea_weather_score")
    /\ input.time = YEAR_IN_ESEC
    /\ input.max_score = 100
    /\ result.value = 78

(***************************************************************************)
(* C13: whatever the order of the pairs handed to WeatherForecast::new,    *)
(* the stored table holds the same pairs sorted by non-decreasing          *)
(* threshold, and weather_at(t) is the weather of a pair with the smallest *)
(* threshold strictly greater than the score of t taken modulo the largest *)
(* threshold; it is Unknown only if no threshold exceeds the score.        *)
(***************************************************************************)
PairsOf(rates) == { rates[k] : k \in DOMAIN rates }

LargestThreshold(pairs) == CHOOSE m \in { p[1] : p \in pairs } : \A p \in pairs : p[1] <= m

\* the pairs of the table given to new whose threshold exceeds the score of
\* the instant asked for
PairsAboveScore ==
    LET pairs == PairsOf(input.weather_rates)
        score == eorzea_weather_score(input.time, LargestThreshold(pairs))
    IN  { p \in pairs : p[1] > score }

C13_SortedLookup ==
    Done("weather_at") =>
        /\ Len(fish.weather) = Len(input.weather_rates)
        /\ \A p \in PairsOf(input.weather_rates) :
              Cardinality({ k \in DOMAIN fish.weather : fish.weather[k] = p })
                  = Cardinality({ k \in DOMAIN input.weather_rates : input.weather_rates[k] = p })
        /\ \A k \in 1..(Len(fish.weather) - 1) : fish.weather[k][1] <= fish.weather[k + 1][1]
        /\ IF input.weather_rates = << >> \/ PairsAboveScore = {}
             THEN result.value = "Unknown"
             ELSE \E p \in PairsAboveScore :
                     /\ \A q \in PairsAboveScore : p[1] <= q[1]
                     /\ result.value = p[2]

\* weather has been looked up in a table that was handed over unsorted, and
\* the pair found was not the first pair given
C13_Witness ==
    /\ Done("weather_at")
    /\ input.weather_rates # fish.weather
    /\ result.value # "Unknown"
    /\ result.value # input.weather_rates[1][2]

(***************************************************************************)
(* C14, as stated: for the rate table [(50,Clouds),(100,Sunny)] every      *)
(* score up to and including 50 gives Clouds, every score in (50,100]      *)
(* gives Sunny, and a score above 100 or an empty table gives Unknown.     *)
(***************************************************************************)
CloudsTable == << <<50, "Clouds">>, <<100, "Sunny">> >>

\* the score weather_at looks up for the instant asked for, in CloudsTable
CloudsScore == eorzea_weather_score(input.time, 100)

C14_BoundaryAsStated ==
    Done("weather_at") =>
        /\ fish.weather = CloudsTable =>
              /\ CloudsScore <= 50 => result.value = "Clouds"
              /\ (CloudsScore > 50 /\ CloudsScore <= 100) => result.value = "Sunny"
              /\ CloudsScore > 100 => result.value = "Unknown"
        /\ fish.weather = << >> => result.value = "Unknown"

(***************************************************************************)
(* C14, amended: for the rate table [(50,Clouds),(100,Sunny)] every score  *)
(* below 50 gives Clouds and every score from 50 (included) up to 99 gives *)
(* Sunny; weather_at never has a score of 100 or more for this table, for  *)
(* which the lookup would give Unknown, and an empty table gives Unknown.  *)
(***************************************************************************)
C14_Boundary ==
    Done("weather_at") =>
        /\ fish.weather = CloudsTable =>
              /\ CloudsScore < 100
              /\ CloudsScore < 50 => result.value = "Clouds"
              /\ CloudsScore >= 50 => result.value = "Sunny"
              /\ \A s \in 100..255 : FirstAbove(fish.weather, s) = "Unknown"
        /\ fish.weather = << >> => result.value = "Unknown"

\* weather has been looked up at an instant whose score is exactly 50
C14_Witness ==
    /\ Done("weather_at")
    /\ fish.weather = CloudsTable
    /\ CloudsScore = 50
    /\ result.value = "Sunny"

(***************************************************************************)
(* C15: weather is constant over a weather period: weather_at gives the    *)
(* same weather for any two instants of the same aligned 8-bell period,    *)
(* the last seconds before the period's end included; so the weather of    *)
(* an instant is the weather of the start of its period and of every       *)
(* other instant of the period.                                            *)
(***************************************************************************)
C15_ConstantOverPeriod ==
    Done("weather_at") =>
        \A off \in PeriodOffsets :
            weather_at(fish.weather, PeriodStart(input.time) + off) = result.value

(***************************************************************************)
(* C16: EorzeaTime::new succeeds if and only if year >= 1, 1 <= moon <= 12,*)
(* 1 <= sun <= 32, bell < 24, minute < 60 and second < 60.  A call with    *)
(* any field out of range (year 0; moon 0 or 13; sun 0 or 33; bell 24;     *)
(* minute 60; second 60) returns the error and produces no time.           *)
(***************************************************************************)
FieldsInRange ==
    /\ input.year >= 1
    /\ input.moon >= 1 /\ input.moon <= 12
    /\ input.sun >= 1 /\ input.sun <= 32
    /\ input.bell < 24
    /\ input.minute < 60
    /\ input.second < 60

C16_NewRangeCheck ==
    (op = "new" /\ pc # "run") =>
        /\ result.ok <=> FieldsInRange
        /\ ~FieldsInRange => (result = Err /\ pc = "done" /\ readback = << >>)

\* number of fields of the call that are out of range
OutOfRangeFields ==
    Cardinality({ f \in {"year", "moon", "sun", "bell", "minute", "second"} :
                    CASE f = "year" -> input.year = 0
                      [] f = "moon" -> input.moon = 0 \/ input.moon > 12
                      [] f = "sun" -> input.sun = 0 \/ input.sun > 32
                      [] f = "bell" -> input.bell >= 24
                      [] f = "minute" -> input.minute >= 60
                      [] f = "second" -> input.second >= 60 })

\* a call whose only field out of range is bell = 24 has returned the error
C16_Witness ==
    /\ Done("new")
    /\ OutOfRangeFields = 1
    /\ input.bell = 24
    /\ result = Err

(***************************************************************************)
(* C17: for every valid tuple, EorzeaTime::new gives the counter           *)
(* (year-1)*33177600 + (moon-1)*2764800 + (sun-1)*86400 + bell*3600 +      *)
(* minute*60 + second, and the accessors year, moon, sun, bell, minute and *)
(* second give the six fields back; new(1,12,32,23,59,59) is one second    *)
(* short of a full year.                                                   *)
(***************************************************************************)
CounterOfFields ==
    (input.year - 1) * 33177600 + (input.moon - 1) * 2764800 + (input.sun - 1) * 86400
    + input.bell * 3600 + input.minute * 60 + input.second

FieldsOfInput ==
    << input.year, input.moon, input.sun, input.bell, input.minute, input.second >>

C17_CounterAndAccessors ==
    (op = "new" /\ pc \in {"shown", "done"} /\ result.ok) =>
        /\ result.value = CounterOfFields
        /\ readback.fields = FieldsOfInput
        /\ FieldsOfInput = <<1, 12, 32, 23, 59, 59>> => result.value = YEAR_IN_ESEC - 1

\* the last second of a year other than the first has been built and read
\* back
C17_Witness ==
    /\ Done("new")
    /\ result.ok
    /\ input.year >= 2
    /\ << input.moon, input.sun, input.bell, input.minute, input.second >> = <<12, 32, 23, 59, 59>>
    /\ readback.fields = FieldsOfInput

(***************************************************************************)
(* C18: real time survives the round trip: for every real instant of u     *)
(* whole seconds at or after the epoch, to_system_time(from_time(u)) = u.  *)
(* So for every time e built by EorzeaTime::new, converting                *)
(* to_system_time(e) with from_time and back gives to_system_time(e)       *)
(* again.                                                                  *)
(***************************************************************************)
C18_RealTimeRoundTrip ==
    /\ (Done("from_time") /\ input.secs >= 0) =>
          /\ result.ok
          /\ readback.system_time = input.secs
    /\ (Done("new") /\ result.ok) =>
          /\ from_time(readback.system_time).ok
          /\ to_system_time(from_time(readback.system_time).value) = readback.system_time

\* one real day after the epoch has been converted and converted back
C18_Witness ==
    /\ Done("from_time")
    /\ input.secs = 86400
    /\ result.ok
    /\ readback.system_time = 86400

(***************************************************************************)
(* C19: from_time maps the real instant u seconds after the epoch to the   *)
(* integer nearest to u * 3600/175 = 144u/7: the epoch to counter 0, 4200  *)
(* real seconds to exactly one sun (1-1-2 00:00:00) and 86400 real seconds *)
(* to 1-1-21 13:42:51.                                                     *)
(***************************************************************************)
FromTimeFixtures ==
    { <<0, 0, <<1, 1, 1, 0, 0, 0>> >>,
      <<4200, 86400, <<1, 1, 2, 0, 0, 0>> >>,
      <<86400, 1777371, <<1, 1, 21, 13, 42, 51>> >> }

C19_FromTimeNearest ==
    (Done("from_time") /\ input.secs >= 0) =>
        /\ result.ok
        /\ 2 * (7 * result.value - 144 * input.secs) < 7
        /\ 2 * (144 * input.secs - 7 * result.value) < 7
        /\ \A f \in FromTimeFixtures :
              input.secs = f[1] => (result.value = f[2] /\ readback.fields = f[3])

\* one real day after the epoch has been converted and its fields read
C19_Witness ==
    /\ Done("from_time")
    /\ input.secs = 86400
    /\ result.ok
    /\ readback.fields = <<1, 1, 21, 13, 42, 51>>

(***************************************************************************)
(* C20: EorzeaTime - EorzeaDuration saturates at zero: the counter of t - d*)
(* is t - d when d <= t and 0 when d > t, never negative or wrapped.       *)
(***************************************************************************)
C20_SubSaturates ==
    Done("sub") =>
        /\ result.value >= 0
        /\ input.esec <= input.timestamp => result.value + input.esec = input.timestamp
        /\ input.esec > input.timestamp => result.value = 0

\* a duration larger than a time after the epoch has been subtracted
C20_Witness ==
    /\ Done("sub")
    /\ input.timestamp > 0
    /\ input.esec > input.timestamp
    /\ result.value = 0

(***************************************************************************)
(* C21: EorzeaTimeSpan::new_start_end(start, end) is an error if and only  *)
(* if end < start; otherwise it is a span with the given start, duration   *)
(* end - start and end() = end, of zero duration when end = start.         *)
(***************************************************************************)
C21_NewStartEnd ==
    Done("new_start_end") =>
        /\ ~result.ok <=> input.end < input.start
        /\ result.ok =>
              /\ result.value.start = input.start
              /\ result.value.duration + input.start = input.end
              /\ SpanEnd(result.value) = input.end

\* a span of zero duration has been built from end = start after the epoch
C21_Witness ==
    /\ Done("new_start_end")
    /\ input.start > 0
    /\ input.end = input.start
    /\ result.ok
    /\ result.value.duration = 0

(***************************************************************************)
(* C22: a.overlap(b) is the span from the later of the two starts to the   *)
(* earlier of the two ends whenever that start is not after that end, and  *)
(* an error exactly when it is; two spans that only touch (a ends where b  *)
(* starts) give Ok with a span of zero duration.                           *)
(***************************************************************************)
LaterStart == IF input.self.start >= input.other.start THEN input.self.start ELSE input.other.start

EarlierEnd ==
    IF input.self.start + input.self.duration <= input.other.start + input.other.duration
      THEN input.self.start + input.self.duration
      ELSE input.other.start + input.other.duration

C22_OverlapSpan ==
    Done("overlap") =>
        /\ result.ok <=> LaterStart <= EarlierEnd
        /\ result.ok =>
              /\ result.value.start = LaterStart
              /\ result.value.start + result.value.duration = EarlierEnd
        /\ input.self.start + input.self.duration = input.other.start =>
              (result.ok /\ result.value.duration = 0)

\* two spans of positive duration that only touch have been intersected
C22_Witness ==
    /\ Done("overlap")
    /\ input.self.duration > 0
    /\ input.other.duration > 0
    /\ input.self.start + input.self.duration = input.other.start
    /\ result.ok
    /\ result.value.duration = 0

(***************************************************************************)
(* C23: overlap is commutative: a.overlap(b) and b.overlap(a) are both the *)
(* same span or both an error.                                             *)
(***************************************************************************)
C23_OverlapCommutes ==
    Done("overlap") => result = overlap(input.other, input.self)

\* two different spans that overlap in a span that is neither of them have
\* been intersected
C23_Witness ==
    /\ Done("overlap")
    /\ result.ok
    /\ result.value # input.self
    /\ result.value # input.other
    /\ result.value.duration > 0

(***************************************************************************)
(* C24: window_on_day(fish, t) starts at dayStart + window_start, where    *)
(* dayStart = t - (t mod 86400), and ends at dayStart + window_end when    *)
(* window_end > window_start, otherwise one full day later, at dayStart +  *)
(* window_end + 86400: a window from late in the day to early in the day   *)
(* ends on the following day, and a fish with window_start = window_end    *)
(* gets a window of a full day.                                            *)
(***************************************************************************)
DayStartOfInput == input.etime - (input.etime % 86400)

C24_WindowOnDay ==
    Done("window_on_day") =>
        /\ result.value.start = DayStartOfInput + fish.window_start
        /\ fish.window_end > fish.window_start =>
              result.value.start + result.value.duration = DayStartOfInput + fish.window_end
        /\ fish.window_end <= fish.window_start =>
              result.value.start + result.value.duration
                  = DayStartOfInput + fish.window_end + 86400
        /\ fish.window_end = fish.window_start => result.value.duration = 86400

\* the window 23:30 to 01:00 has been computed for a time inside a later day
C24_Witness ==
    /\ Done("window_on_day")
    /\ fish.window_start = 84600
    /\ fish.window_end = 3600
    /\ input.etime = 100000
    /\ result.value = [start |-> 86400 + 84600, duration |-> 5400]

(***************************************************************************)
(* C25: no query of the core aborts the process: weather_at and the score  *)
(* it computes (and with them find_pattern, find_next_n_patterns and       *)
(* next_window) return a value for every forecast and every time, also for *)
(* a forecast with an empty rate table and for one whose largest threshold *)
(* is 0.                                                                   *)
(***************************************************************************)
WeatherQueries ==
    {"weather_at", "eorzea_weather_score", "find_pattern", "find_next_n_patterns", "next_window"}

C25_NoPanic ==
    op \in WeatherQueries =>
        /\ pc # "panic"
        /\ (Done("weather_at") /\ fish.weather = << >>) => result.value = "Unknown"

(***************************************************************************)
(* C26: the budget of next_window.  The loop runs at most limit times and  *)
(* its counter never falls below zero; the iteration after k completed     *)
(* ones calls find_pattern with the cursor start + k weather periods and   *)
(* the budget limit - k; the call returns None when limit is 0, when the   *)
(* counter has reached zero without an accepted window, or as soon as one  *)
(* find_pattern call returns None, and otherwise the accepted window of    *)
(* the iteration it stopped in.                                            *)
(***************************************************************************)
\* iterations of the loop completed without a return
IterationsDone == arg_limit - limit

\* the call find_pattern(cursor, .., budget) of the iteration after k
\* completed ones
BudgetedSearch(k) ==
    find_pattern(fish.weather, start + k * EORZEA_WEATHER_PERIOD,
                 fish.previous_weather_set, fish.weather_set, arg_limit - k)

C26_BudgetProtocol ==
    op = "next_window" =>
        /\ limit >= 0
        /\ limit <= arg_limit
        /\ time = start + IterationsDone * EORZEA_WEATHER_PERIOD
        /\ i = IterationsDone + (IF pc = "done" THEN 1 ELSE 0)
        /\ i <= arg_limit + 1
        /\ \A k \in 0..(IterationsDone - 1) : BudgetedSearch(k).some
        /\ pc = "done" =>
              /\ arg_limit = 0 => result = None
              /\ result = None <=> (limit = 0 \/ ~BudgetedSearch(IterationsDone).some)
              /\ result.some =>
                    result.value
                        = overlap(window_on_day(fish, time),
                                  EorzeaTimeSpan_new(BudgetedSearch(IterationsDone).value,
                                                     EORZEA_WEATHER_PERIOD)).value

\* a search that gave up because find_pattern found nothing within the
\* budget left after at least two completed iterations
C26_Witness ==
    /\ Done("next_window")
    /\ result = None
    /\ IterationsDone >= 2
    /\ limit > 0
    /\ BudgetedSearch(0).some
    /\ ~BudgetedSearch(IterationsDone).some

(***************************************************************************)
(* C27: window_on_day never fails and always returns a valid span: for     *)
(* every Fish value, also one whose public fields window_start and         *)
(* window_end were set directly, and every reference time the end is not   *)
(* before the start; for a fish built by Fish::new both offsets are below  *)
(* one day, and the span has a duration above 0 and of at most one day and *)
(* starts on the day of the reference time.                                *)
(***************************************************************************)
C27_WindowAlwaysValid ==
    op = "window_on_day" =>
        /\ pc # "panic"
        /\ pc = "done" =>
              /\ result.value.duration >= 0
              /\ input.by_new =>
                    /\ fish.window_start < 86400
                    /\ fish.window_end < 86400
                    /\ result.value.duration > 0
                    /\ result.value.duration <= 86400
                    /\ result.value.start \div 86400 = input.etime \div 86400

(***************************************************************************)
(* C28: the compound assignment agrees with the binary operator: after     *)
(* `t -= d` the time t is what t - d gives, and both are the counter 0     *)
(* when d is larger than t.                                                *)
(***************************************************************************)
C28_SubAssignAgrees ==
    Done("sub_assign") =>
        /\ result.value = TimeSub(input.timestamp, input.esec)
        /\ input.esec > input.timestamp => result.value = 0

(***************************************************************************)
(* C29: the result of next_window does not depend on include_ongoing: for  *)
(* every fish, search start and limit, next_window(s, true, limit) and     *)
(* next_window(s, false, limit) are the same, since every candidate window *)
(* starts at or after the search start.                                    *)
(***************************************************************************)
C29_OngoingFlagIrrelevant ==
    Done("next_window") =>
        /\ result = next_window(fish, start, ~include_ongoing, arg_limit)
        /\ result.some => result.value.start >= start

\* a call with include_ongoing = true has returned a window after passing
\* over at least one candidate
C29_Witness ==
    /\ Done("next_window")
    /\ include_ongoing
    /\ result.some
    /\ i >= 2

(***************************************************************************)
(* C30: the limit bounds the search horizon: every window returned by      *)
(* next_window(s, _, limit) ends no later than s + limit weather periods,  *)
(* also for a search start s less than one weather period after the        *)
(* epoch, where the backward step of find_pattern saturates at zero.       *)
(***************************************************************************)
C30_WindowWithinHorizon ==
    (Done("next_window") /\ result.some) =>
        result.value.start + result.value.duration <= start + arg_limit * EORZEA_WEATHER_PERIOD

====
